---- MODULE Spec2Model ----
(***************************************************************************)
(* Model of the x86_64 System V calling-convention plugin of fcd           *)
(* (x86_64_systemv.cpp): matches, analyzeFunction and analyzeFunctionType. *)
(*                                                                         *)
(* A lifted function is a sequence of SSA instructions.  Every instruction *)
(* has one tracked operand: 0 is the function's single argument (the       *)
(* pointer to struct.x86_regs), i > 0 is the value of instruction i.  The  *)
(* use list of a value is the set of instructions having it as operand.    *)
(***************************************************************************)
EXTENDS Integers, Sequences, FiniteSets, TLC

VARIABLES
    function,   \* the lifted function: a sequence of instructions
    fnType,     \* the declared llvm::FunctionType handed to analyzeFunctionType
    names,      \* the (targetName, executableType) strings handed to matches
    confirmed,  \* return registers the interprocedural query reports as used
    callInfo,   \* the CallInformation: parameters and returnValues
    result,     \* what the last operation returned
    pc,         \* the last operation that ran on this CallInformation
    ipa         \* the interprocedural return-usage query: call graph,
                \* confirmed (function, register) pairs, worklist, position

vars == <<function, fnType, names, confirmed, callInfo, result, pc, ipa>>

----------------------------------------------------------------------------
(* Bounds of the model. *)

MaxInsts == 4
MaxParams == 4
MaxCallSites == 3

----------------------------------------------------------------------------
(* The convention's register tables. *)

returnRegisters == <<"rax", "rdx">>
parameterRegisters == <<"rdi", "rsi", "rdx", "rcx", "r8", "r9">>

\* The stack pointer of the target.
getStackPointer == "rsp"

\* TargetInfo::registerNamed: the register of that name.
registerNamed(name) == name

\* TargetInfo::largestOverlappingRegister: the 64-bit register enclosing reg.
largestOverlappingRegister(reg) ==
    CASE reg = "edi" -> "rdi"
      [] reg = "eax" -> "rax"
      [] OTHER -> reg

\* The number of bits of a value that one register carries.
RegisterBits == 64

\* TargetInfo::getPointerSize, as the width of the integer a pointer becomes.
getPointerSize == 64

----------------------------------------------------------------------------
(* ValueInformation and CallInformation. *)

IntegerRegister(reg) == [type |-> "IntegerRegister", reg |-> reg, offset |-> 0]
Stack(offset) == [type |-> "Stack", reg |-> "", offset |-> offset]

EmptyCallInformation == [parameters |-> <<>>, returnValues |-> <<>>]

----------------------------------------------------------------------------
(* Instructions of the lifted function. *)

\* Registers whose field of struct.x86_regs a GEP of the model may address.
GepRegisters == {"rdi", "edi", "rdx", "rax", "rsp"}

\* Constant right-hand sides of the additions of the model.
StackOffsets == {-8, 8, 16}

Gep(reg) ==
    [op |-> "gep", operand |-> 0, reg |-> reg, liveOnEntry |-> FALSE,
     rhsConst |-> FALSE, rhs |-> 0]
Load(ptr, entry) ==
    [op |-> "load", operand |-> ptr, reg |-> "", liveOnEntry |-> entry,
     rhsConst |-> FALSE, rhs |-> 0]
Store(ptr) ==
    [op |-> "store", operand |-> ptr, reg |-> "", liveOnEntry |-> FALSE,
     rhsConst |-> FALSE, rhs |-> 0]
Add(lhs, isConst, k) ==
    [op |-> "add", operand |-> lhs, reg |-> "", liveOnEntry |-> FALSE,
     rhsConst |-> isConst, rhs |-> k]

\* Value::uses(): the instructions of f that use value v (0 is the argument).
Uses(f, v) == {j \in DOMAIN f : f[j].operand = v}

\* The users of a value in the order uses() visits them: a new use goes to
\* the head of the use list, so the latest instruction comes first.
RECURSIVE SortedSeq(_)
SortedSeq(S) ==
    IF S = {} THEN <<>>
    ELSE LET m == CHOOSE x \in S : \A y \in S : x >= y
         IN <<m>> \o SortedSeq(S \ {m})

\* A Use: the edge from a value to one instruction that has it as operand.
\* Use::get() is the used value, Use::getUser() the using instruction.
UseGet(use) == use.value
UseGetUser(use) == use.user

\* The use list of value v as a sequence of Use edges, latest use first.
\* Every sequence the analysis builds from a use list appends equal entries
\* for one register, so the iteration order does not show in the result.
RECURSIVE UseEdges(_, _)
UseEdges(v, users) ==
    IF users = <<>> THEN <<>>
    ELSE <<[value |-> v, user |-> Head(users)]>> \o UseEdges(v, Tail(users))

UseList(f, v) == UseEdges(v, SortedSeq(Uses(f, v)))

\* IsStoreInst, were the test for a store to accept every memory access.
IsStoreInstOrLoad(f, i) == i \in DOMAIN f /\ f[i].op \in {"store", "load"}

\* dyn_cast<GetElementPtrInst>, dyn_cast<LoadInst>, isa<StoreInst>.
IsGetElementPtrInst(f, i) == i \in DOMAIN f /\ f[i].op = "gep"
IsLoadInst(f, i) == i \in DOMAIN f /\ f[i].op = "load"
IsStoreInst(f, i) == i \in DOMAIN f /\ f[i].op = "store"

\* TargetInfo::registerInfo(gep): the register whose field the GEP addresses.
registerInfo(f, i) == f[i].reg

\* MemorySSA: the defining access of the load is the live-on-entry definition.
isLiveOnEntryDef(f, i) == f[i].liveOnEntry

\* A sequence back to front.
Reverse(seq) == [i \in 1..Len(seq) |-> seq[Len(seq) + 1 - i]]

\* geps.equal_range(reg): the GEPs off the argument that address reg.  The
\* multimap puts an equal key in front of those already there, so the range
\* runs against the order in which the loop over regs->uses() inserted them.
GepsOf(f, reg) ==
    Reverse(SelectSeq(UseList(f, 0),
                      LAMBDA use : IsGetElementPtrInst(f, UseGetUser(use))
                                   /\ registerInfo(f, UseGetUser(use)) = reg))

----------------------------------------------------------------------------
(* analyzeFunction, pass 1: registers read before they are written. *)

\* The loop over the uses of one GEP: one entry per load of the entry state.
RECURSIVE RegisterLoads(_, _, _)
RegisterLoads(f, uses, regInfo) ==
    IF uses = <<>> THEN <<>>
    ELSE (IF IsLoadInst(f, UseGetUser(Head(uses)))
             /\ isLiveOnEntryDef(f, UseGetUser(Head(uses)))
          THEN <<IntegerRegister(regInfo)>>
          ELSE <<>>)
         \o RegisterLoads(f, Tail(uses), regInfo)

\* The loop over the GEPs of one register.
RECURSIVE RegisterGeps(_, _, _)
RegisterGeps(f, geps, regInfo) ==
    IF geps = <<>> THEN <<>>
    ELSE RegisterLoads(f, UseList(f, UseGetUser(Head(geps))), regInfo)
         \o RegisterGeps(f, Tail(geps), regInfo)

\* The loop over parameterRegisters, from position i on.
RECURSIVE RegisterParameters(_, _)
RegisterParameters(f, i) ==
    IF i > Len(parameterRegisters) THEN <<>>
    ELSE LET smallReg == registerNamed(parameterRegisters[i])
             regInfo == largestOverlappingRegister(smallReg)
         IN RegisterGeps(f, GepsOf(f, regInfo), regInfo)
            \o RegisterParameters(f, i + 1)

----------------------------------------------------------------------------
(* analyzeFunction, pass 2: reads above the initial stack pointer. *)

\* match(v, m_Add(m_Value(), m_ConstantInt(offset))): v is an addition whose
\* right-hand side is a constant integer.
MatchAddConstant(f, v) == v \in DOMAIN f /\ f[v].op = "add" /\ f[v].rhsConst

\* offset->getLimitedValue() read back as a signed 64-bit integer: the value
\* of a 64-bit constant.
SignedLimitedValue(f, v) == f[v].rhs

\* The loop over the uses of one load of the stack pointer.  The pattern is
\* matched against use.get(), the used value.
RECURSIVE StackUses(_, _)
StackUses(f, uses) ==
    IF uses = <<>> THEN <<>>
    ELSE (IF MatchAddConstant(f, UseGet(Head(uses)))
             /\ SignedLimitedValue(f, UseGet(Head(uses))) > 8
          THEN <<Stack(SignedLimitedValue(f, UseGet(Head(uses))))>>
          ELSE <<>>)
         \o StackUses(f, Tail(uses))

\* The loop over the uses of one GEP of the stack pointer.
RECURSIVE StackLoads(_, _)
StackLoads(f, uses) ==
    IF uses = <<>> THEN <<>>
    ELSE (IF IsLoadInst(f, UseGetUser(Head(uses)))
          THEN StackUses(f, UseList(f, UseGetUser(Head(uses))))
          ELSE <<>>)
         \o StackLoads(f, Tail(uses))

\* The loop over the GEPs of the stack pointer.
RECURSIVE StackGeps(_, _)
StackGeps(f, geps) ==
    IF geps = <<>> THEN <<>>
    ELSE StackLoads(f, UseList(f, UseGetUser(Head(geps))))
         \o StackGeps(f, Tail(geps))

StackParameters(f) == StackGeps(f, GepsOf(f, getStackPointer))

----------------------------------------------------------------------------
(* analyzeFunction, pass 3: return registers. *)

\* The loop over the uses of one GEP: one candidate per store.
RECURSIVE ReturnStores(_, _, _)
ReturnStores(f, uses, regInfo) ==
    IF uses = <<>> THEN <<>>
    ELSE (IF IsStoreInst(f, UseGetUser(Head(uses))) THEN <<regInfo>> ELSE <<>>)
         \o ReturnStores(f, Tail(uses), regInfo)

\* The loop over the GEPs of one return register.
RECURSIVE ReturnGeps(_, _, _)
ReturnGeps(f, geps, regInfo) ==
    IF geps = <<>> THEN <<>>
    ELSE ReturnStores(f, UseList(f, UseGetUser(Head(geps))), regInfo)
         \o ReturnGeps(f, Tail(geps), regInfo)

\* The loop over returnRegisters, from position i on: usedReturns.
RECURSIVE UsedReturns(_, _)
UsedReturns(f, i) ==
    IF i > Len(returnRegisters) THEN <<>>
    ELSE LET regInfo == registerNamed(returnRegisters[i])
         IN ReturnGeps(f, GepsOf(f, regInfo), regInfo) \o UsedReturns(f, i + 1)

\* ipaFindUsedReturns: the candidates that the callers are found to use, in
\* the order of the candidates.
ipaFindUsedReturns(used, returns) == SelectSeq(returns, LAMBDA r : r \in used)

RECURSIVE ReturnValues(_)
ReturnValues(regs) ==
    IF regs = <<>> THEN <<>>
    ELSE <<IntegerRegister(Head(regs))>> \o ReturnValues(Tail(regs))

\* analyzeFunction: appends to the parameters and return values of info.
analyzeFunction(info, f, used) ==
    [parameters |-> info.parameters \o RegisterParameters(f, 1) \o StackParameters(f),
     returnValues |-> info.returnValues
                      \o ReturnValues(ipaFindUsedReturns(used, UsedReturns(f, 1)))]

----------------------------------------------------------------------------
(* analyzeFunctionType: static assignment of a declared type to registers. *)

IntegerType(bits) == [kind |-> "integer", bits |-> bits]
PointerType == [kind |-> "pointer", bits |-> 0]
VoidType == [kind |-> "void", bits |-> 0]
DoubleType == [kind |-> "double", bits |-> 64]
StructType == [kind |-> "struct", bits |-> 0]

Min(a, b) == IF a < b THEN a ELSE b

\* ConsumeBits, were a register to carry 32 bits.
ConsumeBits32(bitSize) == bitSize - Min(bitSize, 32)

\* bitSize -= min<unsigned>(bitSize, 64)
ConsumeBits(bitSize) == bitSize - Min(bitSize, RegisterBits)

\* AllBitsAssigned, were the bits left over after the last register dropped.
AllBitsAssignedOrDropped(bitSize) == TRUE

\* return bitSize == 0
AllBitsAssigned(bitSize) == bitSize = 0

\* IsVoidTy, were void refused like every other non-integer type.
IsVoidTyRefused(type) == FALSE

\* type == Type::getVoidTy(...)
IsVoidTy(type) == type.kind = "void"

\* The while loop of addEntriesForType: regIter is a position in regs, and
\* Len(regs) + 1 is the end of the table.
RECURSIVE AssignRegisters(_, _, _, _)
AssignRegisters(into, regs, regIter, bitSize) ==
    IF regIter /= Len(regs) + 1 /\ bitSize /= 0
    THEN AssignRegisters(Append(into, IntegerRegister(registerNamed(regs[regIter]))),
                         regs, regIter + 1, ConsumeBits(bitSize))
    ELSE [into |-> into, regIter |-> regIter, bitSize |-> bitSize]

\* addEntriesForType: the entries and the cursor after the type, and whether
\* the type was assigned.
addEntriesForType(into, regs, regIter, type) ==
    LET t == IF type.kind = "pointer" THEN IntegerType(getPointerSize) ELSE type
    IN IF t.kind = "integer"
       THEN LET r == AssignRegisters(into, regs, regIter, t.bits)
            IN [into |-> r.into, regIter |-> r.regIter, ok |-> AllBitsAssigned(r.bitSize)]
       ELSE [into |-> into, regIter |-> regIter, ok |-> IsVoidTy(t)]

\* The loop of analyzeFunctionType over type.params(), sharing one cursor.
RECURSIVE ParameterEntries(_, _, _)
ParameterEntries(into, regIter, params) ==
    IF params = <<>> THEN [into |-> into, regIter |-> regIter, ok |-> TRUE]
    ELSE LET r == addEntriesForType(into, parameterRegisters, regIter, Head(params))
         IN IF ~r.ok THEN r
            ELSE ParameterEntries(r.into, r.regIter, Tail(params))

\* analyzeFunctionType: fillOut after the call and the value returned.
analyzeFunctionType(fillOut, type) ==
    LET r == addEntriesForType(fillOut.returnValues, returnRegisters, 1, type.ret)
    IN IF ~r.ok
       THEN [info |-> [fillOut EXCEPT !.returnValues = r.into], ok |-> FALSE]
       ELSE LET p == ParameterEntries(fillOut.parameters, 1, type.params)
            IN [info |-> [parameters |-> p.into, returnValues |-> r.into],
                ok |-> p.ok]

----------------------------------------------------------------------------
(* matches: strings are sequences of characters. *)

\* std::string::substr(pos): the characters from pos to the end; throws
\* std::out_of_range when pos > size().
SubstrThrows(str, pos) == pos > Len(str)
Substr(str, pos) == SubSeq(str, pos + 1, Len(str))

x86 == <<"x", "8", "6">>
ELF64 == <<"E", "L", "F", " ", "6", "4">>

\* matches(target, executable): "true", "false", or "out_of_range" when a
\* substr call throws.  The right operand of && is evaluated only when the
\* left one is true.
matches(targetName, executableType) ==
    IF SubstrThrows(targetName, 3) THEN "out_of_range"
    ELSE IF Substr(targetName, 3) /= x86 THEN "false"
    ELSE IF SubstrThrows(executableType, 6) THEN "out_of_range"
    ELSE IF Substr(executableType, 6) = ELF64 THEN "true"
    ELSE "false"

----------------------------------------------------------------------------
(* The interprocedural return-usage query behind ipaFindUsedReturns: a     *)
(* worklist fixed point over the call graph.  A call fact says that, at a  *)
(* call site of callee in caller, the caller reads register reg after the  *)
(* call ("read") or writes it right after the call and returns it          *)
(* ("forward").                                                            *)

Functions == {"f", "g", "h"}

CallFact(caller, callee, reg, use) ==
    [caller |-> caller, callee |-> callee, reg |-> reg, use |-> use]

Range(seq) == {seq[i] : i \in DOMAIN seq}

\* A (function, register) pair.
Pair(fn, reg) == <<fn, reg>>

\* The query has not been started.
IpaIdle == [graph |-> {}, confirmed |-> {}, worklist |-> <<>>, pc |-> "idle"]

\* A finite set as a sequence, in an order fixed by the set.
RECURSIVE SeqOf(_)
SeqOf(S) ==
    IF S = {} THEN <<>>
    ELSE LET x == CHOOSE y \in S : TRUE IN <<x>> \o SeqOf(S \ {x})

\* Every candidate starts unconfirmed and on the worklist.
IpaStart(graph, candidates) ==
    [graph |-> graph, confirmed |-> {}, worklist |-> SeqOf(candidates),
     pc |-> "running"]

\* Rule (a): some call site of the function is followed by a read of the
\* register in the caller.  Rule (b): some caller forwards the register and
\* is itself confirmed for it.
IpaUsed(graph, done, pair) ==
    \E c \in graph :
        /\ c.callee = pair[1]
        /\ c.reg = pair[2]
        /\ \/ c.use = "read"
           \/ c.use = "forward" /\ Pair(c.caller, c.reg) \in done

\* The pairs to look at again once pair is confirmed: the callees whose
\* result the function forwards, not yet confirmed.
IpaDependents(graph, done, pair) ==
    {Pair(c.callee, c.reg) : c \in
        {d \in graph : /\ d.caller = pair[1]
                       /\ d.reg = pair[2]
                       /\ d.use = "forward"
                       /\ Pair(d.callee, d.reg) \notin done}}

\* IpaConfirm, were a confirmation to retract the pairs waiting on it.
IpaConfirmRetracting(graph, done, pair) ==
    (done \ IpaDependents(graph, {}, pair)) \cup {pair}

\* Confirming a pair only adds it to the confirmed set.
IpaConfirm(graph, done, pair) == done \cup {pair}

\* One turn of the worklist loop: take the first pair; confirm it when it is
\* used and was not confirmed, and put its dependents on the worklist.
IpaTurn(q) ==
    LET pair == Head(q.worklist)
        rest == Tail(q.worklist)
    IN IF pair \notin q.confirmed /\ IpaUsed(q.graph, q.confirmed, pair)
       THEN LET done == IpaConfirm(q.graph, q.confirmed, pair)
            IN [q EXCEPT !.confirmed = done,
                         !.worklist = rest \o SeqOf(IpaDependents(q.graph, done, pair)
                                                    \ Range(rest))]
       ELSE [q EXCEPT !.worklist = rest]

----------------------------------------------------------------------------
(* Inputs of the model. *)

IntWidths == {32, 64, 65, 128, 129}
ParamTypes == {IntegerType(b) : b \in IntWidths} \cup {PointerType, DoubleType}
ReturnTypes == ParamTypes \cup {VoidType, StructType}
ParamLists == UNION {[1..n -> ParamTypes] : n \in 0..MaxParams}

TargetNames ==
    {p \o q : p \in {<<>>, <<"x">>, <<"x", "8">>, x86, <<"a", "r", "m">>},
              q \in {<<>>, x86, <<"_", "6", "4">>}}
ExecutableTypes ==
    {p \o q : p \in {<<>>, <<"E", "L", "F">>, ELF64, <<"M", "a", "c", "h", "-", "O">>},
              q \in {<<>>, ELF64, <<"-", "b", "i", "t">>}}

ReturnRegisterSet == {returnRegisters[i] : i \in DOMAIN returnRegisters}

----------------------------------------------------------------------------
(* The state machine. *)

NoType == [ret |-> VoidType, params |-> <<>>]
NoNames == [target |-> <<>>, executable |-> <<>>]

Init ==
    /\ function = <<>>
    /\ fnType = NoType
    /\ names = NoNames
    /\ confirmed = {}
    /\ callInfo = EmptyCallInformation
    /\ result = "none"
    /\ pc = "new"
    /\ ipa = IpaIdle

\* The lifter emits the next instruction of the function being lifted.
CanEmit == pc = "new" /\ Len(function) < MaxInsts

EmitGep ==
    /\ CanEmit
    /\ \E reg \in GepRegisters : function' = Append(function, Gep(reg))
    /\ UNCHANGED <<fnType, names, confirmed, callInfo, result, pc, ipa>>

EmitLoad ==
    /\ CanEmit
    /\ \E ptr \in DOMAIN function, entry \in BOOLEAN :
        /\ IsGetElementPtrInst(function, ptr)
        /\ function' = Append(function, Load(ptr, entry))
    /\ UNCHANGED <<fnType, names, confirmed, callInfo, result, pc, ipa>>

EmitStore ==
    /\ CanEmit
    /\ \E ptr \in DOMAIN function :
        /\ IsGetElementPtrInst(function, ptr)
        /\ function' = Append(function, Store(ptr))
    /\ UNCHANGED <<fnType, names, confirmed, callInfo, result, pc, ipa>>

EmitAdd ==
    /\ CanEmit
    /\ \E lhs \in DOMAIN function :
        /\ IsLoadInst(function, lhs)
        /\ \/ \E k \in StackOffsets : function' = Append(function, Add(lhs, TRUE, k))
           \/ function' = Append(function, Add(lhs, FALSE, 0))
    /\ UNCHANGED <<fnType, names, confirmed, callInfo, result, pc, ipa>>

\* analyzeFunction on a fresh CallInformation; used is what the
\* interprocedural query finds the callers to read.
AnalyzeFunction ==
    /\ pc = "new"
    /\ \E used \in SUBSET ReturnRegisterSet :
        /\ confirmed' = used
        /\ callInfo' = analyzeFunction(callInfo, function, used)
    /\ result' = "void"
    /\ pc' = "analyzeFunction"
    /\ UNCHANGED <<function, fnType, names, ipa>>

\* analyzeFunctionType on a fresh CallInformation, for a declared function.
AnalyzeFunctionType ==
    /\ pc = "new"
    /\ function = <<>>
    /\ \E ret \in ReturnTypes, params \in ParamLists :
        LET type == [ret |-> ret, params |-> params]
            r == analyzeFunctionType(callInfo, type)
        IN /\ fnType' = type
           /\ callInfo' = r.info
           /\ result' = IF r.ok THEN "true" ELSE "false"
    /\ pc' = "analyzeFunctionType"
    /\ UNCHANGED <<function, names, confirmed, ipa>>

\* matches on the names of a target and of an executable.
Matches ==
    /\ pc = "new"
    /\ function = <<>>
    /\ \E t \in TargetNames, e \in ExecutableTypes :
        /\ names' = [target |-> t, executable |-> e]
        /\ result' = matches(t, e)
    /\ pc' = "matches"
    /\ UNCHANGED <<function, fnType, confirmed, callInfo, ipa>>

\* The next function gets a CallInformation of its own, created empty.
NewCallInformation ==
    /\ pc /= "new"
    /\ function' = <<>>
    /\ fnType' = NoType
    /\ names' = NoNames
    /\ confirmed' = {}
    /\ callInfo' = EmptyCallInformation
    /\ result' = "none"
    /\ pc' = "new"
    /\ UNCHANGED ipa

Next ==
    \/ EmitGep
    \/ EmitLoad
    \/ EmitStore
    \/ EmitAdd
    \/ AnalyzeFunction
    \/ AnalyzeFunctionType
    \/ Matches
    \/ NewCallInformation

Spec == Init /\ [][Next]_vars

\* The operations on lifted functions.
NextFunction ==
    \/ EmitGep
    \/ EmitLoad
    \/ EmitStore
    \/ EmitAdd
    \/ AnalyzeFunction
    \/ NewCallInformation

SpecFunction == Init /\ [][NextFunction]_vars

\* The operations on declared function types.
NextType == AnalyzeFunctionType \/ NewCallInformation

SpecType == Init /\ [][NextType]_vars

\* The applicability test.
NextMatches == Matches \/ NewCallInformation

SpecMatches == Init /\ [][NextMatches]_vars

----------------------------------------------------------------------------
(* The interprocedural query as a state machine. *)

CallFacts ==
    {CallFact(caller, callee, reg, use) :
        caller \in Functions, callee \in Functions,
        reg \in ReturnRegisterSet, use \in {"read", "forward"}}

\* Every function of the model writes both return registers.
Candidates == {Pair(fn, reg) : fn \in Functions, reg \in ReturnRegisterSet}

\* The module being analysed has one more call site.
IpaAddCall ==
    /\ ipa.pc = "idle"
    /\ Cardinality(ipa.graph) < MaxCallSites
    /\ \E c \in CallFacts \ ipa.graph : ipa' = [ipa EXCEPT !.graph = @ \cup {c}]
    /\ UNCHANGED <<function, fnType, names, confirmed, callInfo, result, pc>>

\* The query starts: every candidate is unconfirmed and on the worklist.
IpaBegin ==
    /\ ipa.pc = "idle"
    /\ ipa' = IpaStart(ipa.graph, Candidates)
    /\ UNCHANGED <<function, fnType, names, confirmed, callInfo, result, pc>>

\* One turn of the worklist loop.
IpaStep ==
    /\ ipa.pc = "running"
    /\ ipa.worklist /= <<>>
    /\ ipa' = IpaTurn(ipa)
    /\ UNCHANGED <<function, fnType, names, confirmed, callInfo, result, pc>>

\* The worklist is empty: the loop ends and the confirmed set is the answer.
IpaFinish ==
    /\ ipa.pc = "running"
    /\ ipa.worklist = <<>>
    /\ ipa' = [ipa EXCEPT !.pc = "done"]
    /\ UNCHANGED <<function, fnType, names, confirmed, callInfo, result, pc>>

NextIpa == IpaAddCall \/ IpaBegin \/ IpaStep \/ IpaFinish

\* The analysis is synchronous and single-threaded: once started, the loop
\* keeps taking turns until it ends.
SpecIpa ==
    /\ Init
    /\ [][NextIpa]_vars
    /\ WF_vars(IpaStep)
    /\ WF_vars(IpaFinish)

----------------------------------------------------------------------------
(* Vocabulary of the properties. *)

\* The position of a register in a register table (0 when absent).
PositionIn(regs, reg) ==
    IF \E i \in DOMAIN regs : regs[i] = reg
    THEN CHOOSE i \in DOMAIN regs : regs[i] = reg
    ELSE 0

\* The positions of the register entries of a sequence of ValueInformation.
RegisterPositions(seq) == {i \in DOMAIN seq : seq[i].type = "IntegerRegister"}

\* The function loads, from the entry memory state, through an access path
\* of a register overlapping r.
EntryLoadOf(r) ==
    \E g \in DOMAIN function, l \in DOMAIN function :
        /\ function[g].op = "gep"
        /\ largestOverlappingRegister(function[g].reg) = largestOverlappingRegister(r)
        /\ function[l].op = "load"
        /\ function[l].operand = g
        /\ function[l].liveOnEntry

\* The function reads rdi before any write to it, and reads nothing else.
ReadsOnlyRdi ==
    /\ EntryLoadOf("rdi")
    /\ \A l \in DOMAIN function :
        function[l].op = "load" =>
            /\ function[l].liveOnEntry
            /\ largestOverlappingRegister(function[function[l].operand].reg) = "rdi"

\* The function reads at constant offset k from a loaded stack pointer.
StackReadAt(k) ==
    \E g \in DOMAIN function, l \in DOMAIN function, a \in DOMAIN function :
        /\ function[g].op = "gep" /\ function[g].reg = getStackPointer
        /\ function[l].op = "load" /\ function[l].operand = g
        /\ function[a].op = "add" /\ function[a].operand = l
        /\ function[a].rhsConst /\ function[a].rhs = k

\* The function writes register r.
Written(r) ==
    \E g \in DOMAIN function, s \in DOMAIN function :
        /\ function[g].op = "gep" /\ function[g].reg = r
        /\ function[s].op = "store" /\ function[s].operand = g

\* ceil(b / 64)
CeilRegisters(b) == (b + 63) \div 64

\* The number of registers a declared type asks for.
RegistersFor(type) ==
    CASE type.kind = "integer" -> CeilRegisters(type.bits)
      [] type.kind = "pointer" -> 1
      [] OTHER -> 0

RECURSIVE RegistersForAll(_)
RegistersForAll(types) ==
    IF types = <<>> THEN 0
    ELSE RegistersFor(Head(types)) + RegistersForAll(Tail(types))

\* The first n registers of a table, as ValueInformation.
FirstRegisters(regs, n) == [i \in 1..n |-> IntegerRegister(regs[i])]

Representable(type) == type.kind \in {"integer", "pointer", "void"}

----------------------------------------------------------------------------
(* Properties of analyzeFunction. *)

\* C1: after analyzeFunction a convention argument register appears among
\* the parameters exactly when the function loads, from the entry memory
\* state, through an access path of that register (sub-registers count for
\* their 64-bit parent); and a function that reads only rdi before any write
\* has parameters = [rdi].
C1_RegisterParametersAreEntryReads ==
    pc = "analyzeFunction" =>
        /\ \A i \in DOMAIN parameterRegisters :
            IntegerRegister(parameterRegisters[i]) \in Range(callInfo.parameters)
                <=> EntryLoadOf(parameterRegisters[i])
        /\ ReadsOnlyRdi => callInfo.parameters = <<IntegerRegister("rdi")>>

\* C2: the register parameters come in the order rdi, rsi, rdx, rcx, r8, r9:
\* of two register parameters, the one at the earlier position of the result
\* is the one earlier in that list.
C2_RegisterParametersInConventionOrder ==
    pc = "analyzeFunction" =>
        \A i \in RegisterPositions(callInfo.parameters),
           j \in RegisterPositions(callInfo.parameters) :
            i < j => PositionIn(parameterRegisters, callInfo.parameters[i].reg)
                         < PositionIn(parameterRegisters, callInfo.parameters[j].reg)

\* C3: no register appears more than once in the parameters produced by
\* analyzeFunction.
C3_NoDuplicateRegisterParameter ==
    pc = "analyzeFunction" =>
        \A i \in RegisterPositions(callInfo.parameters),
           j \in RegisterPositions(callInfo.parameters) :
            i /= j => callInfo.parameters[i].reg /= callInfo.parameters[j].reg

\* C4: for a read at constant offset k from the loaded stack pointer,
\* analyzeFunction reports a stack parameter at offset k exactly when k > 8.
C4_StackParameterIffAboveReturnAddress ==
    pc = "analyzeFunction" =>
        \A k \in StackOffsets :
            StackReadAt(k) => (Stack(k) \in Range(callInfo.parameters) <=> k > 8)

\* C5: the return values of analyzeFunction are exactly the return registers
\* that the function writes and that the interprocedural query confirms, and
\* rax never comes after rdx.
C5_ReturnValuesAreWrittenAndConfirmed ==
    pc = "analyzeFunction" =>
        /\ \A i \in DOMAIN callInfo.returnValues :
            callInfo.returnValues[i].type = "IntegerRegister"
        /\ {callInfo.returnValues[i].reg : i \in DOMAIN callInfo.returnValues}
               = {r \in ReturnRegisterSet : Written(r) /\ r \in confirmed}
        /\ \A i \in DOMAIN callInfo.returnValues, j \in DOMAIN callInfo.returnValues :
            i < j => PositionIn(returnRegisters, callInfo.returnValues[i].reg)
                         <= PositionIn(returnRegisters, callInfo.returnValues[j].reg)

\* A function writes rax and rdx and reads rdx; only rax is confirmed, and
\* the analysis has run.
C5_Witness ==
    /\ pc = "analyzeFunction"
    /\ Written("rax") /\ Written("rdx")
    /\ confirmed = {"rax"}
    /\ callInfo.returnValues = <<IntegerRegister("rax")>>

----------------------------------------------------------------------------
(* Properties of analyzeFunctionType. *)

\* C6: when analyzeFunctionType succeeds, every integer or pointer parameter
\* of width b has ceil(b / 64) consecutive registers of rdi, rsi, rdx, rcx,
\* r8, r9, starting right after those of the parameters before it, and the
\* return type has its registers from rax, rdx counted from rax whatever the
\* parameters took.
C6_ConsecutiveRegistersPerParameter ==
    pc = "analyzeFunctionType" /\ result = "true" =>
        /\ RegistersForAll(fnType.params) <= Len(parameterRegisters)
        /\ callInfo.parameters
               = FirstRegisters(parameterRegisters, RegistersForAll(fnType.params))
        /\ \A n \in DOMAIN fnType.params :
            LET before == RegistersForAll(SubSeq(fnType.params, 1, n - 1))
                count == CeilRegisters(IF fnType.params[n].kind = "pointer"
                                       THEN getPointerSize
                                       ELSE fnType.params[n].bits)
            IN SubSeq(callInfo.parameters, before + 1, before + count)
                   = [i \in 1..count |-> IntegerRegister(parameterRegisters[before + i])]
        /\ RegistersFor(fnType.ret) <= Len(returnRegisters)
        /\ callInfo.returnValues
               = FirstRegisters(returnRegisters, RegistersFor(fnType.ret))

\* A 65-bit parameter followed by a 128-bit one, with a 64-bit return value:
\* rdi, rsi for the first, rdx, rcx for the second, rax for the result.
C6_Witness ==
    /\ pc = "analyzeFunctionType"
    /\ result = "true"
    /\ fnType.params = <<IntegerType(65), IntegerType(128)>>
    /\ fnType.ret = IntegerType(64)
    /\ Len(callInfo.parameters) = 4
    /\ Len(callInfo.returnValues) = 1

\* C7: analyzeFunctionType returns false exactly when the parameters need
\* more than the six parameter registers, or the return type needs more than
\* the two return registers, or some type is not an integer, a pointer or
\* void; otherwise it returns true.
C7_UnrepresentableIffOutOfRegistersOrClass ==
    pc = "analyzeFunctionType" =>
        (result = "false"
            <=> \/ RegistersForAll(fnType.params) > Len(parameterRegisters)
                \/ RegistersFor(fnType.ret) > Len(returnRegisters)
                \/ ~Representable(fnType.ret)
                \/ \E n \in DOMAIN fnType.params : ~Representable(fnType.params[n]))

\* Integer parameters only, asking for more than six registers, refused.
C7_Witness ==
    /\ pc = "analyzeFunctionType"
    /\ result = "false"
    /\ Representable(fnType.ret)
    /\ RegistersFor(fnType.ret) <= Len(returnRegisters)
    /\ \A n \in DOMAIN fnType.params : fnType.params[n].kind = "integer"
    /\ RegistersForAll(fnType.params) > Len(parameterRegisters)

\* C8: when analyzeFunctionType returns false, the CallInformation is as it
\* was before the call (empty): no register assigned before the failure is
\* left in it.
C8_NoPartialResultOnFailure ==
    pc = "analyzeFunctionType" /\ result = "false" =>
        callInfo = EmptyCallInformation

\* C9: void takes no register and never fails: void foo(void) succeeds with
\* empty parameters and return values, and a void return type leaves the
\* return values empty and the outcome to the parameters alone.
C9_VoidTakesNoRegister ==
    pc = "analyzeFunctionType" /\ fnType.ret = VoidType =>
        /\ callInfo.returnValues = <<>>
        /\ fnType.params = <<>> =>
            result = "true" /\ callInfo = EmptyCallInformation
        /\ result = "true"
            <=> /\ \A n \in DOMAIN fnType.params : Representable(fnType.params[n])
                /\ RegistersForAll(fnType.params) <= Len(parameterRegisters)

\* void foo(void) has been analysed.
C9_Witness ==
    /\ pc = "analyzeFunctionType"
    /\ fnType = [ret |-> VoidType, params |-> <<>>]
    /\ result = "true"

----------------------------------------------------------------------------
(* Properties of matches. *)

\* C10: matches answers true or false for every pair of strings, the short
\* and the empty ones included, and raises no error.
C10_MatchesIsTotal ==
    pc = "matches" => result \in {"true", "false"}

----------------------------------------------------------------------------
(* Properties of the interprocedural return-usage fixed point. *)

\* C11: the fixed point terminates on every call graph, cycles included, and
\* is monotonic: a confirmed (function, register) pair is never un-confirmed,
\* so the confirmed set only grows until the query ends.
C11_FixedPointTerminatesMonotonically ==
    /\ [][ipa.confirmed \subseteq ipa'.confirmed]_vars
    /\ (ipa.pc = "running") ~> (ipa.pc = "done")

\* f and g call each other and forward each other's rax; h calls f and reads
\* rax: the query has ended with rax confirmed for f and for g.
C11_Witness ==
    /\ ipa.pc = "done"
    /\ ipa.graph = {CallFact("f", "g", "rax", "forward"),
                    CallFact("g", "f", "rax", "forward"),
                    CallFact("h", "f", "rax", "read")}
    /\ ipa.confirmed = {Pair("f", "rax"), Pair("g", "rax")}

====
